---- MODULE Spec2Model ----
(***************************************************************************)
(* Model of two parts of livekit-cli:                                      *)
(*   - pkg/provider/vp8looper.go : VPVideoLooper, a sample provider that   *)
(*     replays an in-memory IVF clip forever (SpecLooper);                 *)
(*   - cmd/lk/loadtest.go : the load-test command handler loadTest         *)
(*     (SpecLoadTest).                                                     *)
(* The two parts share no state; each specification leaves the other       *)
(* part's variables at their initial values.                               *)
(***************************************************************************)
EXTENDS Integers, Sequences, FiniteSets, TLC

VARIABLES
    \* ---- VPVideoLooper (vp8looper.go:31-40) and one caller pulling from it
    buffer,         \* l.buffer: the clip, as the IVF parser sees it
    fps,            \* l.spec.fps
    arch,           \* the build's GOARCH (decides out-of-range float->int)
    frameDuration,  \* l.frameDuration, nanoseconds
    reader,         \* l.reader: nil, or the parse position in the clip
    ivfTimebase,    \* l.ivfTimebase, kept as the rational num/den
    lastTimestamp,  \* l.lastTimestamp (uint64)
    sample,         \* media.Sample returned by the last NextSample
    err,            \* error returned by the last NextSample
    pulls,          \* number of NextSample calls made so far
    trace,          \* what the last NextSample call did (history of one call)
    \* ---- loadTest (loadtest.go:144-205)
    cmd,            \* the parsed command line (flag values)
    ltpc,           \* "start" before loadTest runs, "done" after it returned
    params,         \* loadtester.Params as built by loadTest
    test,           \* what loadTest constructed and started
    ltErr           \* the error loadTest returned

looperVars == <<buffer, fps, arch, frameDuration, reader, ivfTimebase,
                lastTimestamp, sample, err, pulls, trace>>
loadTestVars == <<cmd, ltpc, params, test, ltErr>>
vars == <<buffer, fps, arch, frameDuration, reader, ivfTimebase,
          lastTimestamp, sample, err, pulls, trace,
          cmd, ltpc, params, test, ltErr>>

(***************************************************************************)
(* Bounds of the model.                                                    *)
(***************************************************************************)
MaxFrames == 3
MaxPulls == 7

(***************************************************************************)
(* Time units (Go's time package), in nanoseconds.                         *)
(***************************************************************************)
Second == 1000000000
Millisecond == 1000000

(***************************************************************************)
(* The clip.  An IVF buffer is a 32-byte file header followed by frames,   *)
(* each a 12-byte frame header (size, timestamp) and size bytes of         *)
(* payload.  The model keeps what the parser distinguishes:                *)
(*   hdr    how the file header parses;                                    *)
(*   frames the complete frames, in order (timestamp, payload);            *)
(*   tail   what follows the last complete frame: nothing, an incomplete   *)
(*          frame header, a complete frame header with none of its         *)
(*          payload, or a frame header with part of its payload;           *)
(*   tbNum, tbDen  the header's timebase numerator and denominator.        *)
(***************************************************************************)
NoData == 0
PayloadOf(i) == 100 + i

HeaderKinds == {"ok", "empty", "short", "badSignature", "badVersion"}
TailKinds == {"none", "partialHeader", "headerOnly", "partialData"}
Timebases == {[num |-> 1, den |-> 30], [num |-> 1, den |-> 1000]}
TimestampSteps == {1, 2}
FrameRates == {15, 30}
Archs == {"amd64", "arm64"}

MkFrames(n, step) ==
    [i \in 1..n |-> [Timestamp |-> (i - 1) * step, data |-> PayloadOf(i)]]

Clips ==
    { [hdr |-> "ok", frames |-> MkFrames(n, step), tail |-> tl,
       tbNum |-> tb.num, tbDen |-> tb.den] :
          n \in 0..MaxFrames, step \in TimestampSteps,
          tl \in TailKinds, tb \in Timebases }
    \cup
    { [hdr |-> h, frames |-> <<>>, tail |-> "none", tbNum |-> 0, tbDen |-> 0] :
          h \in HeaderKinds \ {"ok"} }

(***************************************************************************)
(* ivfreader.NewWith and IVFReader.ParseNextFrame, as nextSample uses      *)
(* them.                                                                   *)
(***************************************************************************)
NilReader == [isNil |-> TRUE, pos |-> 0]

\* ivfreader.NewWith(bytes.NewReader(l.buffer)): a reader at the first frame
\* and the file header, or no reader and an error.  An empty buffer gives
\* io.EOF (io.ReadFull read nothing).
NewWith(buf) ==
    CASE buf.hdr = "ok" ->
            [reader |-> [isNil |-> FALSE, pos |-> 1],
             TimebaseNumerator |-> buf.tbNum,
             TimebaseDenominator |-> buf.tbDen, err |-> "nil"]
      [] buf.hdr = "empty" ->
            [reader |-> NilReader, TimebaseNumerator |-> 0,
             TimebaseDenominator |-> 0, err |-> "EOF"]
      [] buf.hdr = "short" ->
            [reader |-> NilReader, TimebaseNumerator |-> 0,
             TimebaseDenominator |-> 0, err |-> "errIncompleteFileHeader"]
      [] buf.hdr = "badSignature" ->
            [reader |-> NilReader, TimebaseNumerator |-> 0,
             TimebaseDenominator |-> 0, err |-> "errSignatureMismatch"]
      [] OTHER ->
            [reader |-> NilReader, TimebaseNumerator |-> 0,
             TimebaseDenominator |-> 0, err |-> "errUnknownIVFVersion"]

\* l.reader.ParseNextFrame(): the frame at the reader's position, or an
\* error.  io.EOF when nothing is left, and also when a complete frame
\* header is followed by none of its payload (io.ReadFull read nothing);
\* an incomplete header or payload is its own error.  A failed read has
\* consumed the rest of the buffer.
ParseNextFrame(buf, rd) ==
    LET n == Len(buf.frames)
        atEnd == [isNil |-> FALSE, pos |-> n + 2]
    IN  CASE rd.pos <= n ->
                [reader |-> [isNil |-> FALSE, pos |-> rd.pos + 1],
                 frame |-> buf.frames[rd.pos].data,
                 Timestamp |-> buf.frames[rd.pos].Timestamp, err |-> "nil"]
          [] rd.pos = n + 1 /\ buf.tail = "partialHeader" ->
                [reader |-> atEnd, frame |-> NoData, Timestamp |-> 0,
                 err |-> "errIncompleteFrameHeader"]
          [] rd.pos = n + 1 /\ buf.tail = "partialData" ->
                [reader |-> atEnd, frame |-> NoData, Timestamp |-> 0,
                 err |-> "errIncompleteFrameData"]
          [] rd.pos = n + 1 /\ buf.tail = "headerOnly" ->
                [reader |-> atEnd, frame |-> NoData, Timestamp |-> 0,
                 err |-> "EOF"]
          [] OTHER ->
                [reader |-> rd, frame |-> NoData, Timestamp |-> 0,
                 err |-> "EOF"]

(***************************************************************************)
(* Arithmetic of nextSample.                                               *)
(***************************************************************************)
\* header.Timestamp - l.lastTimestamp on uint64.  The model's timestamps
\* are far below 2^64, so the difference is kept as its magnitude and
\* whether the subtraction wrapped: wrapped means the value 2^64 - mag.
SubUint64(a, b) ==
    IF a >= b THEN [wrapped |-> FALSE, mag |-> a - b]
              ELSE [wrapped |-> TRUE, mag |-> b - a]

\* time.Duration(l.ivfTimebase*float64(delta)*1000) * time.Millisecond.
\* With a wrapped delta the float exceeds int64 for every timebase of the
\* model; Go leaves that conversion to the implementation: amd64 gives
\* -2^63, arm64 saturates at 2^63-1, and the int64 product with 10^6 is
\* then 0 and -10^6.  Every timebase of the model has a denominator > 0.
NativeDuration(tb, delta, goarch) ==
    IF delta.wrapped
    THEN IF goarch = "amd64" THEN 0 ELSE 0 - Millisecond
    ELSE ((tb.num * delta.mag * 1000) \div tb.den) * Millisecond

\* Lines 106 and 108: sample.Duration is first the native duration and is
\* then overwritten by l.frameDuration.
SampleDurationNative(native, fixed) == native
SampleDuration(native, fixed) == fixed

\* Line 96: err == io.EOF && rewindEOF.
ShouldRewindAnyError(e, rewindEOF) == e # "nil" /\ rewindEOF
ShouldRewind(e, rewindEOF) == e = "EOF" /\ rewindEOF

(***************************************************************************)
(* VPVideoLooper.nextSample.  l is the looper object; tr records what the  *)
(* call has done so far (it is history, not program state).                *)
(***************************************************************************)
EmptySample == [Data |-> NoData, Duration |-> 0]

NewTrace(last) ==
    [opens |-> 0, parses |-> 0, errs |-> <<>>, rewinds |-> 0,
     resetOn |-> "none",
     errAt |-> "none", prevTimestamp |-> last,
     delta |-> [wrapped |-> FALSE, mag |-> 0], native |-> 0]

\* Lines 83-95: open the clip if there is no reader, then parse one frame.
\* A failed NewWith leaves l.reader nil and the timebase untouched, and no
\* frame is parsed.
attempt(l, tr) ==
    LET mustOpen == l.reader.isNil
        o == NewWith(l.buffer)
        openFails == mustOpen /\ o.err # "nil"
        l1 == IF mustOpen /\ ~openFails
              THEN [l EXCEPT !.reader = o.reader,
                             !.ivfTimebase = [num |-> o.TimebaseNumerator,
                                              den |-> o.TimebaseDenominator]]
              ELSE l
        tr1 == IF mustOpen THEN [tr EXCEPT !.opens = @ + 1] ELSE tr
        p == ParseNextFrame(l1.buffer, l1.reader)
    IN  IF openFails
        THEN [l |-> l1, tr |-> tr1, openErr |-> o.err, frame |-> NoData,
              Timestamp |-> 0, err |-> "nil"]
        ELSE [l |-> [l1 EXCEPT !.reader = p.reader],
              tr |-> [tr1 EXCEPT !.parses = @ + 1,
                                 !.errs = Append(@, p.err)],
              openErr |-> "nil",
              frame |-> p.frame, Timestamp |-> p.Timestamp, err |-> p.err]

\* Line 97: l.reader = nil.
rewindKeepReader(a) ==
    [l |-> a.l,
     tr |-> [a.tr EXCEPT !.rewinds = @ + 1, !.resetOn = a.err]]
rewind(a) ==
    [l |-> [a.l EXCEPT !.reader = NilReader],
     tr |-> [a.tr EXCEPT !.rewinds = @ + 1, !.resetOn = a.err]]

\* Lines 89-91 and 100-109: what the call returns once it does not rewind.
finish(a) ==
    LET delta == SubUint64(a.Timestamp, a.l.lastTimestamp)
        native == NativeDuration(a.l.ivfTimebase, delta, a.l.arch)
    IN  IF a.openErr # "nil"
        THEN [l |-> a.l, tr |-> [a.tr EXCEPT !.errAt = "open"],
              sample |-> EmptySample, err |-> a.openErr]
        ELSE IF a.err # "nil"
        THEN [l |-> a.l, tr |-> [a.tr EXCEPT !.errAt = "parse"],
              sample |-> EmptySample, err |-> a.err]
        ELSE [l |-> [a.l EXCEPT !.lastTimestamp = a.Timestamp],
              tr |-> [a.tr EXCEPT !.delta = delta, !.native = native],
              sample |-> [Data |-> a.frame,
                          Duration |-> SampleDuration(native, a.l.frameDuration)],
              err |-> "nil"]

\* A nextSample whose retry may itself rewind once more.
nextSampleRewindTwice(l, tr, rewindEOF) ==
    LET a == attempt(l, tr)
    IN  IF a.openErr = "nil" /\ ShouldRewind(a.err, rewindEOF)
        THEN LET b == attempt(rewind(a).l, rewind(a).tr)
             IN  IF b.openErr = "nil" /\ ShouldRewind(b.err, rewindEOF)
                 THEN finish(attempt(rewind(b).l, rewind(b).tr))
                 ELSE finish(b)
        ELSE finish(a)

\* Lines 82-110.  The recursive call passes rewindEOF = false.
RECURSIVE nextSample(_, _, _)
nextSample(l, tr, rewindEOF) ==
    LET a == attempt(l, tr)
    IN  IF a.openErr = "nil" /\ ShouldRewind(a.err, rewindEOF)
        THEN nextSample(rewind(a).l, rewind(a).tr, FALSE)
        ELSE finish(a)

(***************************************************************************)
(* The looper as a state machine: NewVPVideoLooper builds it, and the      *)
(* publish loop of its track calls NextSample again and again.             *)
(***************************************************************************)
Looper ==
    [buffer |-> buffer, frameDuration |-> frameDuration, arch |-> arch,
     reader |-> reader, ivfTimebase |-> ivfTimebase,
     lastTimestamp |-> lastTimestamp]

\* NewVPVideoLooper (lines 42-57); reader, ivfTimebase and lastTimestamp
\* keep Go's zero values.
NewVPVideoLooper ==
    /\ buffer \in Clips
    /\ fps \in FrameRates
    /\ arch \in Archs
    /\ frameDuration = Second \div fps
    /\ reader = NilReader
    /\ ivfTimebase = [num |-> 0, den |-> 1]
    /\ lastTimestamp = 0
    /\ sample = EmptySample
    /\ err = "nil"
    /\ pulls = 0
    /\ trace = NewTrace(0)

\* NextSample (lines 74-76): nextSample(true).
NextSample ==
    /\ pulls < MaxPulls
    /\ LET r == nextSample(Looper, NewTrace(lastTimestamp), TRUE)
       IN  /\ reader' = r.l.reader
           /\ ivfTimebase' = r.l.ivfTimebase
           /\ lastTimestamp' = r.l.lastTimestamp
           /\ sample' = r.sample
           /\ err' = r.err
           /\ trace' = r.tr
    /\ pulls' = pulls + 1
    /\ UNCHANGED <<buffer, fps, arch, frameDuration, loadTestVars>>

(***************************************************************************)
(* loadTest, the action of the load-test command (loadtest.go:144-205).    *)
(* cmd holds the flag values after parsing; durations are in               *)
(* milliseconds.                                                           *)
(***************************************************************************)
Unset == -1
SuiteDuration == 15000

RoomNames == {"load-test", "lt"}
DurationValues == {0, 60000}
PublisherCounts == {0, 5}
SubscriberCounts == {0, 7}
FairprocValues == {Unset, 300}
LayoutFlagValues == {"speaker", "3x3", "4x4", "5x5", "hex"}

Commands ==
    [projectOK : BOOLEAN,
     room : RoomNames,
     duration : DurationValues,
     videoPublishers : PublisherCounts,
     audioPublishers : PublisherCounts,
     subscribers : SubscriberCounts,
     identityPrefix : {""},
     videoResolution : {"high"},
     videoCodec : {""},
     numPerSecond : {5},
     webWidth : FairprocValues,
     webHeight : FairprocValues,
     webBitrate : FairprocValues,
     screenWidth : FairprocValues,
     screenHeight : FairprocValues,
     screenBitrate : FairprocValues,
     audioBitrate : {Unset, 16},
     fairprocRooms : BOOLEAN,
     layout : LayoutFlagValues,
     noSimulcast : {FALSE},
     simulateSpeakers : {FALSE},
     runAll : BOOLEAN]

\* loadtester.LayoutFromString, as the specification describes layout
\* resolution: a name of the fixed set resolves to its layout, any other
\* name is an UnknownLayoutError.
LayoutNames == {"speaker", "3x3", "4x4", "5x5"}
LayoutFromString(name) ==
    IF name \in LayoutNames THEN name ELSE "UnknownLayoutError"

\* The zero value of loadtester.Params.
ZeroParams ==
    [VideoResolution |-> "", VideoCodec |-> "", Duration |-> 0,
     NumPerSecond |-> 0, Simulcast |-> FALSE, SimulateSpeakers |-> FALSE,
     FairprocConfigWebWidth |-> 0, FairprocConfigWebHieght |-> 0,
     FairprocConfigWebBitrate |-> 0, FairprocConfigScreenWidth |-> 0,
     FairprocConfigScreenHeight |-> 0, FairprocConfigScreenBitrate |-> 0,
     FairprocAudioBitrate |-> 0, IsFairproc |-> FALSE,
     VideoPublishers |-> 0, AudioPublishers |-> 0, Subscribers |-> 0,
     Room |-> "", IdentityPrefix |-> "", Layout |-> ""]

\* Lines 155-178: the Params literal.
ParamsLiteral(c) ==
    [ZeroParams EXCEPT
        !.VideoResolution = c.videoResolution,
        !.VideoCodec = c.videoCodec,
        !.Duration = c.duration,
        !.NumPerSecond = c.numPerSecond,
        !.Simulcast = ~c.noSimulcast,
        !.SimulateSpeakers = c.simulateSpeakers,
        !.FairprocConfigWebWidth = c.webWidth,
        !.FairprocConfigWebHieght = c.webHeight,
        !.FairprocConfigWebBitrate = c.webBitrate,
        !.FairprocConfigScreenWidth = c.screenWidth,
        !.FairprocConfigScreenHeight = c.screenHeight,
        !.FairprocConfigScreenBitrate = c.screenBitrate,
        !.FairprocAudioBitrate = c.audioBitrate,
        !.IsFairproc = c.fairprocRooms,
        !.Room = c.room,
        !.IdentityPrefix = c.identityPrefix,
        !.Layout = LayoutFromString(c.layout)]

\* Lines 194-195: the check of the coupled-mode values.
FairprocMissing(p) ==
    \/ p.FairprocAudioBitrate = Unset
    \/ p.FairprocConfigScreenHeight = Unset
    \/ p.FairprocConfigScreenWidth = Unset
    \/ p.FairprocConfigWebBitrate = Unset
    \/ p.FairprocConfigWebHieght = Unset
    \/ p.FairprocConfigWebWidth = Unset

\* Lines 198-199: the coupled-mode publisher counts.
FairprocOverrideSwapped(p) ==
    [p EXCEPT !.AudioPublishers = 3, !.VideoPublishers = 2]
FairprocOverride(p) ==
    [p EXCEPT !.AudioPublishers = 2, !.VideoPublishers = 3]

NoTest == [constructed |-> FALSE, called |-> "none", params |-> ZeroParams]

\* loadTest: what it built, what it started, what it returned.  An error
\* value "Run" or "RunSuite" stands for whatever that call returns.
loadTest(c) ==
    IF ~c.projectOK
    THEN [params |-> ZeroParams, test |-> NoTest, err |-> "errProject"]
    ELSE
    LET p0 == ParamsLiteral(c)
        suite == [p0 EXCEPT !.Duration = IF @ = 0 THEN SuiteDuration ELSE @]
        p1 == [p0 EXCEPT !.VideoPublishers = c.videoPublishers,
                         !.AudioPublishers = c.audioPublishers,
                         !.Subscribers = c.subscribers]
        p2 == IF p1.IsFairproc THEN FairprocOverride(p1) ELSE p1
    IN  IF c.runAll
        THEN [params |-> suite,
              test |-> [constructed |-> TRUE, called |-> "RunSuite",
                        params |-> suite],
              err |-> "RunSuite"]
        ELSE IF p1.IsFairproc /\ FairprocMissing(p1)
        THEN [params |-> p1, test |-> NoTest, err |-> "errFairprocMissing"]
        ELSE [params |-> p2,
              test |-> [constructed |-> TRUE, called |-> "Run",
                        params |-> p2],
              err |-> "Run"]

\* The command line has been parsed; loadTest has not run yet.
CommandParsed ==
    /\ cmd \in Commands
    /\ ltpc = "start"
    /\ params = ZeroParams
    /\ test = NoTest
    /\ ltErr = "nil"

LoadTest ==
    /\ ltpc = "start"
    /\ LET r == loadTest(cmd)
       IN  /\ params' = r.params
           /\ test' = r.test
           /\ ltErr' = r.err
    /\ ltpc' = "done"
    /\ UNCHANGED <<cmd, looperVars>>

(***************************************************************************)
(* Specifications.                                                         *)
(***************************************************************************)
\* The idle state of each part, held while the other part runs.
LooperIdle ==
    /\ buffer = [hdr |-> "empty", frames |-> <<>>, tail |-> "none",
                 tbNum |-> 0, tbDen |-> 0]
    /\ fps = 30
    /\ arch = "amd64"
    /\ frameDuration = Second \div 30
    /\ reader = NilReader
    /\ ivfTimebase = [num |-> 0, den |-> 1]
    /\ lastTimestamp = 0
    /\ sample = EmptySample
    /\ err = "nil"
    /\ pulls = 0
    /\ trace = NewTrace(0)

LoadTestIdle ==
    /\ cmd = [projectOK |-> FALSE]
    /\ ltpc = "idle"
    /\ params = ZeroParams
    /\ test = NoTest
    /\ ltErr = "nil"

InitLooper == NewVPVideoLooper /\ LoadTestIdle
NextLooper == NextSample
SpecLooper == InitLooper /\ [][NextLooper]_vars

InitLoadTest == CommandParsed /\ LooperIdle
NextLoadTest == LoadTest
SpecLoadTest == InitLoadTest /\ [][NextLoadTest]_vars

(***************************************************************************)
(* Properties of the looper (SpecLooper).                                  *)
(***************************************************************************)
NumFrames == Len(buffer.frames)
WellFormedClip == buffer.hdr = "ok" /\ buffer.tail = "none" /\ NumFrames >= 1
ZeroFrameClip == buffer.hdr = "ok" /\ buffer.tail = "none" /\ NumFrames = 0

\* C1: on a clip of k >= 1 complete frames, the i-th pull (from 0) succeeds
\* and returns the payload of frame i mod k: end-of-stream is never
\* returned and the loop boundary neither skips nor repeats a frame.
C1_LoopsInFrameOrder ==
    (WellFormedClip /\ pulls >= 1) =>
        /\ err = "nil"
        /\ sample.Data = buffer.frames[((pulls - 1) % NumFrames) + 1].data

\* A pull that crossed the loop boundary of a clip of several frames for
\* the second time and returned the first frame again.
C1_Witness ==
    /\ WellFormedClip /\ NumFrames >= 2
    /\ pulls = 2 * NumFrames + 1
    /\ trace.rewinds = 1
    /\ err = "nil" /\ sample.Data = buffer.frames[1].data

\* C2: every sample returned without error has the fixed duration
\* time.Second / fps set at construction, whatever the clip's timebase and
\* timestamps.
C2_FixedDuration ==
    (pulls >= 1 /\ err = "nil") =>
        /\ sample.Duration = Second \div fps
        /\ frameDuration = Second \div fps

\* A successful pull after a rewind whose native duration (from timebase
\* and timestamp delta) differs from the duration returned.
C2_Witness ==
    /\ pulls >= 1 /\ err = "nil"
    /\ trace.rewinds = 1
    /\ trace.native # sample.Duration
    /\ sample.Duration = Second \div fps

\* C3: a clip with a valid header and no frame is an error at open time:
\* a pull from it fails in the open step, before any frame is parsed, and
\* no sample is returned.
C3_ZeroFrameFailsAtOpen ==
    (ZeroFrameClip /\ pulls >= 1) =>
        /\ err # "nil"
        /\ trace.errAt = "open"
        /\ trace.parses = 0
        /\ sample = EmptySample

\* C6: a frame parse that fails with an error other than io.EOF ends the
\* pull: that error is returned with no sample, the reader is kept (not
\* reset to nil) and the clip is not reopened because of it.
C6_ParseErrorPropagated ==
    pulls >= 1 =>
        \A i \in 1..Len(trace.errs) :
            trace.errs[i] \notin {"nil", "EOF"} =>
                /\ i = Len(trace.errs)
                /\ err = trace.errs[i]
                /\ sample = EmptySample
                /\ ~reader.isNil
                /\ trace.resetOn # trace.errs[i]
                /\ trace.errAt = "parse"

\* A pull that parsed past the complete frames of a truncated clip and
\* returned the incomplete-frame error.
C6_Witness ==
    /\ NumFrames >= 1
    /\ buffer.tail = "partialData"
    /\ pulls = NumFrames + 1
    /\ err = "errIncompleteFrameData"
    /\ trace.rewinds = 0

\* C7: over successful pulls the last seen timestamp never decreases, so
\* the uint64 delta of a pull never wraps, also across the loop boundary.
C7_TimestampMonotonic ==
    (pulls >= 1 /\ err = "nil") =>
        /\ lastTimestamp >= trace.prevTimestamp
        /\ ~trace.delta.wrapped

\* C10: a pull makes at most two parse attempts and at most one rewind,
\* rewinds only on io.EOF, and ends with a sample or an error, for every
\* clip.
C10_BoundedRewind ==
    pulls >= 1 =>
        /\ trace.parses <= 2
        /\ trace.rewinds <= 1
        /\ trace.opens <= 2
        /\ (trace.rewinds = 1 <=> trace.resetOn = "EOF")
        /\ (trace.rewinds = 0 <=> trace.resetOn = "none")
        /\ (trace.rewinds = 1 => trace.errs[1] = "EOF")
        /\ (err # "nil" \/ sample.Data # NoData)

\* A pull from a clip without frames: two parse attempts, one rewind, and
\* io.EOF returned.
C10_Witness ==
    /\ buffer.hdr = "ok" /\ NumFrames = 0
    /\ pulls >= 1
    /\ trace.parses = 2
    /\ trace.rewinds = 1
    /\ err = "EOF"

(***************************************************************************)
(* Properties of loadTest (SpecLoadTest).                                  *)
(***************************************************************************)
Returned == ltpc = "done" /\ cmd.projectOK

\* C4: coupled mode with any of web width, web height, web bitrate or
\* screen bitrate unset fails with the configuration error before a load
\* test is constructed.
C4_PartialPresetRejected ==
    (/\ Returned /\ ~cmd.runAll /\ cmd.fairprocRooms
     /\ \/ cmd.webWidth = Unset
        \/ cmd.webHeight = Unset
        \/ cmd.webBitrate = Unset
        \/ cmd.screenBitrate = Unset)
    => (ltErr = "errFairprocMissing" /\ ~test.constructed)

\* C5 as stated: coupled mode with web width, web height, web bitrate and
\* screen bitrate supplied starts the run with 2 audio and 3 video
\* publishers and the requested subscribers, whatever the other flags.
C5_FourValuesSuffice ==
    (/\ Returned /\ cmd.fairprocRooms
     /\ cmd.webWidth # Unset /\ cmd.webHeight # Unset
     /\ cmd.webBitrate # Unset /\ cmd.screenBitrate # Unset)
    => /\ test.called = "Run"
       /\ test.params.AudioPublishers = 2
       /\ test.params.VideoPublishers = 3
       /\ test.params.Subscribers = cmd.subscribers

\* C5 amended: coupled mode outside suite mode, with web width, web
\* height, web bitrate and screen bitrate supplied and also screen width,
\* screen height and audio bitrate different from -1, starts the run with
\* 2 audio and 3 video publishers and the requested subscribers.
C5_AllValuesSuffice ==
    (/\ Returned /\ ~cmd.runAll /\ cmd.fairprocRooms
     /\ cmd.webWidth # Unset /\ cmd.webHeight # Unset
     /\ cmd.webBitrate # Unset /\ cmd.screenBitrate # Unset
     /\ cmd.screenWidth # Unset /\ cmd.screenHeight # Unset
     /\ cmd.audioBitrate # Unset)
    => /\ test.called = "Run"
       /\ ltErr = "Run"
       /\ test.params.AudioPublishers = 2
       /\ test.params.VideoPublishers = 3
       /\ test.params.Subscribers = cmd.subscribers

\* A coupled-mode run with every value supplied that overrode other
\* requested publisher counts and kept the requested subscribers.
C5_Witness ==
    /\ Returned /\ ~cmd.runAll /\ cmd.fairprocRooms
    /\ cmd.webWidth # Unset /\ cmd.webHeight # Unset
    /\ cmd.webBitrate # Unset /\ cmd.screenBitrate # Unset
    /\ cmd.screenWidth # Unset /\ cmd.screenHeight # Unset
    /\ cmd.audioBitrate # Unset
    /\ cmd.audioPublishers = 5 /\ cmd.videoPublishers = 0
    /\ cmd.subscribers = 7
    /\ test.called = "Run"
    /\ test.params.AudioPublishers = 2
    /\ test.params.VideoPublishers = 3
    /\ test.params.Subscribers = 7

\* C8: a layout name outside {speaker, 3x3, 4x4, 5x5} does not resolve and
\* loadTest returns an error of its own before any load test is
\* constructed; a name of the set resolves.
C8_UnknownLayoutRejected ==
    Returned =>
        /\ cmd.layout \notin LayoutNames =>
               /\ LayoutFromString(cmd.layout) = "UnknownLayoutError"
               /\ ltErr \notin {"nil", "Run", "RunSuite"}
               /\ ~test.constructed
        /\ (cmd.layout \in LayoutNames /\ test.constructed) =>
               test.params.Layout = cmd.layout

\* C9: in suite mode RunSuite gets an empty room name and zero video
\* publisher, audio publisher and subscriber counts, and no coupled-mode
\* override.
C9_SuiteLeavesOutRoomAndCounts ==
    (Returned /\ cmd.runAll) =>
        /\ test.called = "RunSuite"
        /\ test.params.Room = ""
        /\ test.params.VideoPublishers = 0
        /\ test.params.AudioPublishers = 0
        /\ test.params.Subscribers = 0

====
